---------------------------- MODULE Spec2Model ----------------------------
(***************************************************************************)
(* Model of miami_herald_scraper.py: the five-stage pipeline               *)
(*   Discovery -> Filter -> Resolution -> Dedup -> Export                  *)
(* and the pure helpers it is built from (normalize_url, parse_date,       *)
(* resolve_google_news_url).                                               *)
(*                                                                         *)
(* Python strings are modelled as sequences of one-character strings, so   *)
(* that split, rstrip, startswith, re.sub, lower and strip are computed    *)
(* character by character as the code computes them.  The empty string is  *)
(* the empty sequence << >>.                                               *)
(***************************************************************************)
EXTENDS Integers, Sequences, FiniteSets, TLC

VARIABLES
    pc,            \* position of main(): the stage about to run
    CUTOFF_DATE,   \* module constant computed at import (line 23)
    qi,            \* collect_all_articles: index of the next query of RSS_QUERIES
    ri,            \* resolve_urls: index of the next candidate of its loop
    status,        \* fetch_gnews_rss: how the last request ended
    fetched,       \* collect_all_articles: local `articles`, the last feed's candidates
    all_articles,  \* collect_all_articles: the insertion-ordered dict, as [key, value] pairs
    articles,      \* main(): the variable `articles` handed from stage to stage
    issued,        \* history: the queries requests.get was called with, in call order
    stages,        \* history: the stages main() has run, in order
    log,           \* the kept/removed counts the Filter and Dedup stages log
    csv,           \* the rows written by write_csv (header row left out)
    arg,           \* normalize_url under test: the input URL
    rets           \* normalize_url under test: results of the repeated applications

vars == <<pc, CUTOFF_DATE, qi, ri, status, fetched, all_articles, articles,
          issued, stages, log, csv, arg, rets>>

-----------------------------------------------------------------------------
(* Bounds of the model *)

\* number of query terms of the catalog that are modelled (the program has 29)
NumQueries == 2
\* largest number of entries one feed response carries
MaxEntries == 2
\* instants are 0 .. MaxInstant
MaxInstant == 3
\* URLs under test are concatenations of at most MaxParts fragments
MaxParts == 4
\* how often normalize_url is re-applied to its own result
MaxCalls == 2
\* longest list handed to write_csv when it is checked on its own
MaxRows == 3

-----------------------------------------------------------------------------
(* Python string primitives *)

\* the element of a one-element set.  {F(v) : v \in {e}} computes e once and
\* hands its value to F, as an assignment to a local variable does
Only(S) == CHOOSE x \in S : TRUE

\* s.startswith(p)
StartsWith(s, p) == Len(s) >= Len(p) /\ SubSeq(s, 1, Len(p)) = p

\* s[n:]
DropFirst(s, n) == IF n >= Len(s) THEN << >> ELSE SubSeq(s, n + 1, Len(s))

\* `sub in s`
Contains(s, sub) ==
    \E i \in 1..(Len(s) - Len(sub) + 1) : SubSeq(s, i, i + Len(sub) - 1) = sub

\* s.split(c)[0]: everything before the first occurrence of c
BeforeFirst(s, c) ==
    LET at == {i \in 1..Len(s) : s[i] = c}
    IN  IF at = {} THEN s
        ELSE SubSeq(s, 1, (CHOOSE k \in at : \A j \in at : k <= j) - 1)

\* s.rstrip(c): every trailing c is removed
RECURSIVE RStrip(_, _)
RStrip(s, c) ==
    IF Len(s) > 0 /\ s[Len(s)] = c THEN RStrip(SubSeq(s, 1, Len(s) - 1), c) ELSE s

Whitespace == {" ", "\t"}

\* s.strip()
RECURSIVE LStripWs(_)
LStripWs(s) == IF Len(s) > 0 /\ s[1] \in Whitespace THEN LStripWs(Tail(s)) ELSE s

RECURSIVE RStripWs(_)
RStripWs(s) ==
    IF Len(s) > 0 /\ s[Len(s)] \in Whitespace
    THEN RStripWs(SubSeq(s, 1, Len(s) - 1)) ELSE s

Strip(s) == LStripWs(RStripWs(s))

\* s.lower(), on the letters the modelled titles use
LowerChar(c) ==
    CASE c = "A" -> "a" [] c = "B" -> "b" [] c = "C" -> "c"
      [] c = "M" -> "m" [] c = "H" -> "h" [] OTHER -> c

Lower(s) == [i \in 1..Len(s) |-> LowerChar(s[i])]

-----------------------------------------------------------------------------
(* normalize_url, lines 80-88 *)

HttpScheme == <<"h", "t", "t", "p", ":", "/", "/">>
HttpsScheme == <<"h", "t", "t", "p", "s", ":", "/", "/">>
HttpAmp == <<"h", "t", "t", "p", ":", "/", "/", "a", "m", "p", ".">>
HttpsAmp == <<"h", "t", "t", "p", "s", ":", "/", "/", "a", "m", "p", ".">>
HttpsWww == <<"h", "t", "t", "p", "s", ":", "/", "/", "w", "w", "w", ".">>

\* whether r"https?://amp\." matches at position i of s, and how long the match is
AmpMatchLen(s, i) ==
    IF StartsWith(DropFirst(s, i - 1), HttpsAmp) THEN Len(HttpsAmp)
    ELSE IF StartsWith(DropFirst(s, i - 1), HttpAmp) THEN Len(HttpAmp)
    ELSE 0

\* re.sub(r"https?://amp\.", "https://www.", url): the leftmost match is
\* replaced and the scan goes on behind it, until no match is left
RECURSIVE SubAmp(_)
SubAmp(s) ==
    LET hits == {i \in 1..Len(s) : AmpMatchLen(s, i) > 0}
    IN  IF hits = {} THEN s
        ELSE Only({SubSeq(s, 1, i - 1) \o HttpsWww
                       \o Only({SubAmp(rest)
                                : rest \in {DropFirst(s, i - 1 + AmpMatchLen(s, i))}})
                   : i \in {CHOOSE k \in hits : \A j \in hits : k <= j}})

\* url.split("?")[0].split("#")[0].rstrip("/")
CutTail(s) ==
    LET no_query == {BeforeFirst(u, "?") : u \in {s}}
        no_fragment == {BeforeFirst(u, "#") : u \in no_query}
    IN Only({RStrip(u, "/") : u \in no_fragment})

\* if url.startswith("http://"): url = "https://" + url[7:]
Upgrade(s) ==
    IF StartsWith(s, HttpScheme) THEN HttpsScheme \o DropFirst(s, Len(HttpScheme)) ELSE s

\* a slip the code does not make: only one trailing slash is removed
CutOneSlash(s) ==
    LET no_query == {BeforeFirst(u, "?") : u \in {s}}
        no_fragment == {BeforeFirst(u, "#") : u \in no_query}
    IN Only({IF Len(u) > 0 /\ u[Len(u)] = "/" THEN SubSeq(u, 1, Len(u) - 1) ELSE u
             : u \in no_fragment})

normalize_url_one_slash(url) ==
    IF url = << >> THEN << >>
    ELSE LET rewritten == {SubAmp(u) : u \in {url}}
             cut == {CutOneSlash(u) : u \in rewritten}
             upgraded == {Upgrade(u) : u \in cut}
         IN Only(upgraded)

\* each assignment to `url` is a value of its own, computed once: a one-element
\* set holds it
normalize_url(url) ==
    IF url = << >> THEN << >>
    ELSE LET rewritten == {SubAmp(u) : u \in {url}}
             cut == {CutTail(u) : u \in rewritten}
             upgraded == {Upgrade(u) : u \in cut}
         IN Only(upgraded)

-----------------------------------------------------------------------------
(* parse_date, lines 96-124 *)

\* datetime.min, the sort key write_csv gives a row without a date (line 259)
DatetimeMin == 0

\* Python's None, as parse_date returns it
None == -1

Instants == DatetimeMin..MaxInstant

\* the formats tried by the loop of lines 102-110, in its order
Formats ==
    << "%a, %d %b %Y %H:%M:%S %Z", "%a, %d %b %Y %H:%M:%S %z",
       "%Y-%m-%dT%H:%M:%S%z", "%Y-%m-%dT%H:%M:%S", "%Y-%m-%d",
       "%b %d, %Y", "%B %d, %Y" >>

(***************************************************************************)
(* A raw date text is described by what the parsers make of it:            *)
(*   text       its kind, "" for the empty string                          *)
(*   fmts       the strptime formats that accept it                        *)
(*   iso_prefix whether re.match of line 117 finds an ISO date+time prefix *)
(*   fields_ok  whether the fields of that prefix form a valid date        *)
(*   t, tz      the wall-clock instant and the UTC offset it denotes       *)
(***************************************************************************)
RawDate(text, fmts, pre, ok, t, tz) ==
    [text |-> text, fmts |-> fmts, iso_prefix |-> pre, fields_ok |-> ok,
     t |-> t, tz |-> tz]

\* "Tue, 02 Jan 2024 10:00:00 GMT"
DateRfc(t) == RawDate("rfc822", {Formats[1]}, FALSE, FALSE, t, 0)
\* "2024-01-02T10:00:00-0500"
DateIsoOffset(t) == RawDate("iso+offset", {Formats[3]}, TRUE, TRUE, t, -5)
\* "2024-01-02" ("0001-01-01" for t = DatetimeMin)
DateYmd(t) == RawDate("ymd", {Formats[5]}, FALSE, FALSE, t, 0)
\* "May 02, 2024": the abbreviated and the full month name coincide
DateMay(t) == RawDate("may", {Formats[6], Formats[7]}, FALSE, FALSE, t, 0)
\* "2024-01-02T10:00:00.500Z": only the pattern of line 117 finds it
DateIsoFraction(t) == RawDate("iso.fraction", {}, TRUE, TRUE, t, 0)
\* "2024-13-45T10:00:00.5": the pattern matches and strptime refuses the fields
DateBadFields == RawDate("iso.badfields", {}, TRUE, FALSE, None, 0)
\* "not a date"
DateText == RawDate("not a date", {}, FALSE, FALSE, None, 0)
\* ""
DateEmpty == RawDate("", {}, FALSE, FALSE, None, 0)

\* datetime.strptime(date_str, fmt) followed by dt.replace(tzinfo=None):
\* the wall-clock instant, the offset dropped; None stands for ValueError
Strptime(d, fmt) == IF fmt \in d.fmts THEN d.t ELSE None

RECURSIVE TryFormats(_, _)
TryFormats(d, i) ==
    IF i > Len(Formats) THEN None
    ELSE IF Strptime(d, Formats[i]) # None THEN Strptime(d, Formats[i])
    ELSE TryFormats(d, i + 1)

parse_date(d) ==
    IF d.text = "" THEN None
    ELSE IF TryFormats(d, 1) # None THEN TryFormats(d, 1)
    ELSE IF d.iso_prefix /\ d.fields_ok THEN d.t
    ELSE None

\* dt.strftime("%Y-%m-%d") if dt else "": the text of the day, or the empty string
FormatDate(dt) == IF dt # None THEN <<dt>> ELSE << >>

-----------------------------------------------------------------------------
(* The text the environment supplies: links, decoded URLs, titles *)

\* "miamiherald.com", the marker of lines 214 and 322
Marker ==
    <<"m","i","a","m","i","h","e","r","a","l","d",".","c","o","m">>
\* "Miami Herald", the publisher's display name of lines 154 and 166
Publisher ==
    <<"M","i","a","m","i"," ","H","e","r","a","l","d">>

\* a redirect link as the feed gives it, with its tracking query
LinkGoogleQuery ==
    <<"h","t","t","p","s",":","/","/","n","e","w","s",".","g","o","o","g","l","e",".","c","o","m","/","r","s","s","/","a","r","t","i","c","l","e","s","/","C","B","?","o","c","=","5">>
\* the same redirect link without the query
LinkGoogle ==
    <<"h","t","t","p","s",":","/","/","n","e","w","s",".","g","o","o","g","l","e",".","c","o","m","/","r","s","s","/","a","r","t","i","c","l","e","s","/","C","B">>
\* a feed link that already points at the publisher's mirror
LinkMirror ==
    <<"h","t","t","p",":","/","/","a","m","p",".","m","i","a","m","i","h","e","r","a","l","d",".","c","o","m","/","n","e","w","s","/","a","1",".","h","t","m","l","/">>
\* entry.get("link", "") of an entry that carries no link
LinkNone == << >>

DecodedTracked ==
    <<"h","t","t","p","s",":","/","/","w","w","w",".","m","i","a","m","i","h","e","r","a","l","d",".","c","o","m","/","n","e","w","s","/","a","1",".","h","t","m","l","?","u","t","m","=","x">>
DecodedPlain ==
    <<"h","t","t","p","s",":","/","/","w","w","w",".","m","i","a","m","i","h","e","r","a","l","d",".","c","o","m","/","n","e","w","s","/","a","1",".","h","t","m","l">>
DecodedOther ==
    <<"h","t","t","p","s",":","/","/","e","x","a","m","p","l","e",".","c","o","m","/","x">>
DecodedQueryOnly ==
    <<"?","m","i","a","m","i","h","e","r","a","l","d",".","c","o","m">>

DecodedUrls == {DecodedTracked, DecodedPlain, DecodedOther, DecodedQueryOnly}

-----------------------------------------------------------------------------
(* fetch_gnews_rss, lines 132-178 *)

\* the characters of [-–—]: hyphen, en dash, em dash
Dashes == {"-", "u2013", "u2014"}

\* whether t, taken whole, matches \s*[-–—]\s*Miami Herald\s*$
MatchesSuffix(t) ==
    LET a == LStripWs(t)
    IN  /\ a # << >>
        /\ a[1] \in Dashes
        /\ LET b == LStripWs(Tail(a))
           IN  /\ StartsWith(b, Publisher)
               /\ LStripWs(DropFirst(b, Len(Publisher))) = << >>

\* re.sub(r"\s*[-–—]\s*Miami Herald\s*$", "", title).strip(): the
\* leftmost position from which the pattern matches up to the end is cut off
StripTitle(title) ==
    LET starts == {i \in 1..Len(title) : MatchesSuffix(SubSeq(title, i, Len(title)))}
    IN  IF starts = {} THEN Strip(title)
        ELSE LET i == CHOOSE k \in starts : \A j \in starts : k <= j
             IN Strip(SubSeq(title, 1, i - 1))

\* entry.source when the attribute is a dict; absent otherwise
Source(title) == [present |-> TRUE, title |-> title]
NoSource == [present |-> FALSE, title |-> << >>]

FeedEntry(title, published, link, source) ==
    [title |-> title, published |-> published, link |-> link, source |-> source]

\* "Ab - Miami Herald", from the publisher, a redirect link with a query
EntrySuffixed ==
    FeedEntry(<<"A", "b", " ", "-", " ">> \o Publisher, DateRfc(2),
              LinkGoogleQuery, Source(Publisher))
\* "ab ", the same headline in another case, no source, a mirror link
EntryVariant == FeedEntry(<<"a", "b", " ">>, DateYmd(1), LinkMirror, NoSource)
\* "B", an unparseable date and no link
EntryUndated == FeedEntry(<<"B">>, DateText, LinkNone, Source(Publisher))
\* " <en dash> Miami Herald": nothing is left of the title
EntryNameOnly ==
    FeedEntry(<<" ", "u2013", " ">> \o Publisher, DateMay(3), LinkGoogle,
              Source(Publisher))
\* "C" attributed to another publisher
EntryForeign ==
    FeedEntry(<<"C">>, DateIsoOffset(3), LinkGoogle, Source(<<"C", "N", "N">>))
\* "C" from the publisher, the redirect link without its query
EntryPlain ==
    FeedEntry(<<"C">>, DateIsoFraction(3), LinkGoogle, Source(Publisher))

Entries ==
    {EntrySuffixed, EntryVariant, EntryUndated, EntryNameOnly, EntryForeign, EntryPlain}

RECURSIVE SeqsUpTo(_, _)
SeqsUpTo(S, n) ==
    IF n = 0 THEN {<< >>}
    ELSE LET shorter == SeqsUpTo(S, n - 1)
         IN shorter \cup {Append(q, x) : q \in shorter, x \in S}

\* what requests.get does: raise, or return a response with a status code and a body
Responses ==
    [raised : {FALSE}, status_code : {200, 503}, entries : SeqsUpTo(Entries, MaxEntries)]
    \cup [raised : {TRUE}, status_code : {0}, entries : {<< >>}]

\* the dict appended at lines 169-176; `decoded` is history: what the decoder
\* answered for this candidate, << >> until resolve_urls has called it
Article(title, pub_date, google_url) ==
    [title |-> title, publish_date |-> pub_date, google_url |-> google_url,
     url |-> << >>, author |-> << >>, summary |-> << >>, decoded |-> << >>]

\* lines 162-167: an entry is skipped when its source names another publisher
SourceAccepted(entry) ==
    LET source == IF entry.source.present THEN entry.source.title ELSE << >>
    IN ~(source # << >> /\ ~Contains(source, Publisher))

\* the loop of lines 152-176
RECURSIVE ParseEntries(_)
ParseEntries(entries) ==
    IF entries = << >> THEN << >>
    ELSE LET entry == Head(entries)
             rest == ParseEntries(Tail(entries))
         IN IF SourceAccepted(entry)
            THEN <<Article(StripTitle(entry.title), entry.published, entry.link)>> \o rest
            ELSE rest

\* lines 140-147: how the request ended
Outcome(resp) ==
    IF resp.raised THEN "error" ELSE IF resp.status_code # 200 THEN "status" ELSE "ok"

fetch_gnews_rss(resp) ==
    IF Outcome(resp) # "ok" THEN << >> ELSE ParseEntries(resp.entries)

-----------------------------------------------------------------------------
(* collect_all_articles, lines 181-198 *)

\* the catalog of line 27, its first terms
RSS_QUERIES ==
    [i \in 1..NumQueries |->
        CASE i = 1 -> "site:miamiherald.com"
          [] i = 2 -> "site:miamiherald.com news"
          [] i = 3 -> "site:miamiherald.com local"
          [] OTHER -> "site:miamiherald.com crime"]

\* key = article["title"].lower().strip()
Key(article) == Strip(Lower(article.title))

Keys(all) == {all[i].key : i \in 1..Len(all)}

\* a slip the code does not make: the membership test is left out
MergeOne_no_test(all, article) ==
    IF Key(article) # << >>
    THEN Append(all, [key |-> Key(article), value |-> article])
    ELSE all

\* lines 190-193
MergeOne(all, article) ==
    IF Key(article) # << >> /\ Key(article) \notin Keys(all)
    THEN Append(all, [key |-> Key(article), value |-> article])
    ELSE all

\* the loop of lines 189-193
RECURSIVE Merge(_, _)
Merge(all, arts) ==
    IF arts = << >> THEN all ELSE Merge(MergeOne(all, Head(arts)), Tail(arts))

\* list(all_articles.values())
Values(all) == [i \in 1..Len(all) |-> all[i].value]

-----------------------------------------------------------------------------
(* filter_by_date, lines 229-238 *)

\* a slip the code does not make: a date at the cutoff is dropped
KeepByDate_strict(article, cutoff) ==
    LET dt == parse_date(article.publish_date)
    IN dt = None \/ dt > cutoff

\* line 234
KeepByDate(article, cutoff) ==
    LET dt == parse_date(article.publish_date)
    IN dt = None \/ dt >= cutoff

RECURSIVE filter_by_date(_, _)
filter_by_date(arts, cutoff) ==
    IF arts = << >> THEN << >>
    ELSE IF KeepByDate(Head(arts), cutoff)
    THEN <<Head(arts)>> \o filter_by_date(Tail(arts), cutoff)
    ELSE filter_by_date(Tail(arts), cutoff)

-----------------------------------------------------------------------------
(* resolve_google_news_url, lines 69-77, and resolve_urls, lines 206-221 *)

\* what new_decoderv1 does: raise, or return a dict
DecoderResult(raised, st, url) == [raised |-> raised, status |-> st, decoded_url |-> url]

DecoderResults ==
    {DecoderResult(TRUE, FALSE, << >>),
     DecoderResult(FALSE, FALSE, << >>),
     DecoderResult(FALSE, TRUE, << >>)}
    \cup {DecoderResult(FALSE, TRUE, u) : u \in DecodedUrls}

resolve_google_news_url(google_url, result) ==
    IF ~result.raised /\ result.status /\ result.decoded_url # << >>
    THEN result.decoded_url
    ELSE google_url

\* a slip the code does not make: the adopted URL is stored as decoded
ResolveOne_raw(article, result) ==
    LET real_url == resolve_google_news_url(article.google_url, result)
    IN IF Contains(real_url, Marker)
       THEN [article EXCEPT !.url = real_url, !.decoded = <<result>>]
       ELSE [article EXCEPT !.url = article.google_url, !.decoded = <<result>>]

\* a slip the code does not make: the fallback is normalized too
ResolveOne_always_normalize(article, result) ==
    LET real_url == resolve_google_news_url(article.google_url, result)
    IN [article EXCEPT !.url = normalize_url(real_url), !.decoded = <<result>>]

\* the body of the loop of lines 211-218
ResolveOne(article, result) ==
    LET real_url == resolve_google_news_url(article.google_url, result)
    IN IF Contains(real_url, Marker)
       THEN [article EXCEPT !.url = normalize_url(real_url), !.decoded = <<result>>]
       ELSE [article EXCEPT !.url = article.google_url, !.decoded = <<result>>]

-----------------------------------------------------------------------------
(* deduplicate_by_url, lines 241-251 *)

\* a slip the code does not make: the key is the URL as stored
DedupKey_raw(article) == article.url

\* line 246
DedupKey(article) == normalize_url(article.url)

\* the loop of lines 245-249, `seen` and `unique` carried along
RECURSIVE DedupLoop(_, _, _)
DedupLoop(arts, seen, unique) ==
    IF arts = << >> THEN unique
    ELSE Only({IF url \notin seen
               THEN DedupLoop(Tail(arts), seen \cup {url}, Append(unique, Head(arts)))
               ELSE DedupLoop(Tail(arts), seen, unique)
               : url \in {DedupKey(Head(arts))}})

deduplicate_by_url(arts) == Only({DedupLoop(a, {}, << >>) : a \in {arts}})

-----------------------------------------------------------------------------
(* write_csv, lines 254-276 *)

\* parse_date(a.get("publish_date")) or datetime.min
SortKey(article) ==
    LET dt == parse_date(article.publish_date)
    IN IF dt # None THEN dt ELSE DatetimeMin

\* sorted(..., reverse=True) is stable: an element goes after every element
\* already placed whose key is greater or equal
RECURSIVE InsertDesc(_, _)
InsertDesc(sorted, a) ==
    IF sorted = << >> THEN <<a>>
    ELSE IF SortKey(Head(sorted)) >= SortKey(a)
    THEN <<Head(sorted)>> \o InsertDesc(Tail(sorted), a)
    ELSE <<a>> \o sorted

RECURSIVE SortedDesc(_)
SortedDesc(arts) ==
    IF arts = << >> THEN << >>
    ELSE Only({InsertDesc(sorted, arts[Len(arts)])
               : sorted \in {SortedDesc(SubSeq(arts, 1, Len(arts) - 1))}})

\* s[:500]
Take500(s) == IF Len(s) > 500 THEN SubSeq(s, 1, 500) ELSE s

\* the row of lines 268-274
Row(article) ==
    [title |-> article.title, url |-> article.url,
     publish_date |-> FormatDate(parse_date(article.publish_date)),
     author |-> article.author, summary |-> Take500(article.summary)]

write_csv(arts) ==
    Only({[i \in 1..Len(sorted_articles) |-> Row(sorted_articles[i])]
          : sorted_articles \in {SortedDesc(arts)}})

-----------------------------------------------------------------------------
(* main, lines 284-315 *)

Pipeline == <<"discovery", "filter", "resolve", "dedup", "export">>

\* a slip the code does not make: the links are resolved before the date filter
StageAfter_resolve_first(stage) ==
    CASE stage = "discovery" -> "resolve"
      [] stage = "resolve" -> "filter"
      [] stage = "filter" -> "dedup"
      [] stage = "dedup" -> "export"
      [] OTHER -> "done"

\* the order of the calls of lines 298, 303, 307, 311 and 315
StageAfter(stage) ==
    CASE stage = "discovery" -> "filter"
      [] stage = "filter" -> "resolve"
      [] stage = "resolve" -> "dedup"
      [] stage = "dedup" -> "export"
      [] OTHER -> "done"

\* a slip the code does not make: a failed request ends the run
AfterQuery_abort(resp, i) ==
    IF Outcome(resp) # "ok" THEN "aborted"
    ELSE IF i < NumQueries THEN "discovery" ELSE StageAfter("discovery")

\* lines 185-198: after query i the loop goes on, whatever the request did, and
\* collect_all_articles returns after the last query
AfterQuery(resp, i) ==
    IF i < NumQueries THEN "discovery" ELSE StageAfter("discovery")

Idle ==
    /\ qi = 1
    /\ ri = 1
    /\ status = "none"
    /\ fetched = << >>
    /\ all_articles = << >>
    /\ issued = << >>
    /\ log = << >>
    /\ csv = << >>

Init ==
    /\ pc = "discovery"
    /\ CUTOFF_DATE \in (DatetimeMin + 1)..MaxInstant
    /\ Idle
    /\ articles = << >>
    /\ stages = << >>
    /\ arg = << >>
    /\ rets = << >>

\* one iteration of the loop of collect_all_articles (lines 185-196); the last
\* one also returns list(all_articles.values()) to main (lines 198, 298)
Query ==
    /\ pc = "discovery"
    /\ qi <= NumQueries
    /\ \E resp \in Responses :
         LET got == fetch_gnews_rss(resp)
             all == Merge(all_articles, got)
         IN  /\ issued' = Append(issued, RSS_QUERIES[qi])
             /\ status' = Outcome(resp)
             /\ fetched' = got
             /\ all_articles' = all
             /\ pc' = AfterQuery(resp, qi)
             /\ articles' = IF pc' \notin {"discovery", "aborted"} THEN Values(all) ELSE articles
    /\ qi' = qi + 1
    /\ stages' = IF qi = 1 THEN Append(stages, "discovery") ELSE stages
    /\ UNCHANGED <<CUTOFF_DATE, ri, log, csv, arg, rets>>

\* line 303
Filter ==
    /\ pc = "filter"
    /\ articles' = filter_by_date(articles, CUTOFF_DATE)
    /\ log' = Append(log, [stage |-> "filter", kept |-> Len(articles'),
                           removed |-> Len(articles) - Len(articles')])
    /\ stages' = Append(stages, "filter")
    /\ pc' = StageAfter("filter")
    /\ fetched' = << >>
    /\ UNCHANGED <<CUTOFF_DATE, qi, ri, status, all_articles, issued, csv, arg, rets>>

\* lines 211-221: after candidate i the loop goes on, and resolve_urls returns
\* after the last candidate
AfterResolve(i, n) == IF i < n THEN "resolve" ELSE StageAfter("resolve")

\* line 307, one iteration of the loop of resolve_urls (lines 211-218); the
\* decoder answers each call as it pleases; the last iteration also returns
ResolveStep ==
    /\ pc = "resolve"
    /\ ri <= Len(articles)
    /\ \E result \in DecoderResults :
         articles' = [articles EXCEPT ![ri] = ResolveOne(articles[ri], result)]
    /\ ri' = ri + 1
    /\ stages' = IF ri = 1 THEN Append(stages, "resolve") ELSE stages
    /\ pc' = AfterResolve(ri, Len(articles))
    /\ fetched' = << >>
    /\ UNCHANGED <<CUTOFF_DATE, qi, status, all_articles, issued, log, csv, arg, rets>>

\* line 307 when no candidate is left: the loop body never runs
ResolveNone ==
    /\ pc = "resolve"
    /\ Len(articles) = 0
    /\ stages' = Append(stages, "resolve")
    /\ pc' = StageAfter("resolve")
    /\ fetched' = << >>
    /\ UNCHANGED <<CUTOFF_DATE, qi, ri, status, all_articles, articles, issued, log,
                   csv, arg, rets>>

\* line 311
Dedup ==
    /\ pc = "dedup"
    /\ articles' = deduplicate_by_url(articles)
    /\ log' = Append(log, [stage |-> "dedup", kept |-> Len(articles'),
                           removed |-> Len(articles) - Len(articles')])
    /\ stages' = Append(stages, "dedup")
    /\ pc' = StageAfter("dedup")
    /\ UNCHANGED <<CUTOFF_DATE, qi, ri, status, fetched, all_articles, issued, csv, arg, rets>>

\* line 315
Export ==
    /\ pc = "export"
    /\ csv' = write_csv(articles)
    /\ stages' = Append(stages, "export")
    /\ pc' = StageAfter("export")
    /\ UNCHANGED <<CUTOFF_DATE, qi, ri, status, fetched, all_articles, articles, issued,
                   log, arg, rets>>

Next == Query \/ Filter \/ ResolveStep \/ ResolveNone \/ Dedup \/ Export

Spec == Init /\ [][Next]_vars

\* the program is one sequential thread: whenever a step is possible it is taken
\* (every request carries timeout=30, line 141)
FairSpec == Spec /\ WF_vars(Next)

-----------------------------------------------------------------------------
(* normalize_url applied to arbitrary URLs *)

UrlParts ==
    {HttpScheme, HttpsScheme, <<"a", "m", "p", ".">>, <<"x">>, <<"/">>, <<"?">>,
     <<"#">>, <<"h">>}

RECURSIVE UrlsUpTo(_)
UrlsUpTo(n) ==
    IF n = 0 THEN {<< >>}
    ELSE LET shorter == UrlsUpTo(n - 1)
         IN shorter \cup {u \o part : u \in shorter, part \in UrlParts}

InitNorm ==
    /\ pc = "normalize"
    /\ CUTOFF_DATE = MaxInstant
    /\ Idle
    /\ articles = << >>
    /\ stages = << >>
    /\ arg \in UrlsUpTo(MaxParts)
    /\ rets = << >>

\* url = normalize_url(url), first on the input and then on its own result
Normalize ==
    /\ pc = "normalize"
    /\ Len(rets) < MaxCalls
    /\ rets' = Append(rets, normalize_url(IF rets = << >> THEN arg ELSE rets[Len(rets)]))
    /\ UNCHANGED <<pc, CUTOFF_DATE, qi, ri, status, fetched, all_articles, articles,
                   issued, stages, log, csv, arg>>

SpecNorm == InitNorm /\ [][Normalize]_vars

-----------------------------------------------------------------------------
(* write_csv applied to arbitrary lists *)

ExportDates ==
    {DateYmd(t) : t \in Instants}
    \cup {DateRfc(MaxInstant), DateIsoFraction(DatetimeMin + 1), DateText, DateEmpty}

ExportArticles == {Article(<<"A">>, d, LinkGoogle) : d \in ExportDates}

InitExport ==
    /\ pc = "export"
    /\ CUTOFF_DATE = MaxInstant
    /\ Idle
    /\ articles \in SeqsUpTo(ExportArticles, MaxRows)
    /\ stages = <<"discovery", "filter", "resolve", "dedup">>
    /\ arg = << >>
    /\ rets = << >>

SpecExport == InitExport /\ [][Export]_vars

-----------------------------------------------------------------------------
(* Vocabulary of the properties *)

Resolved == pc \in {"dedup", "export", "done"}

\* the k-th smallest element of a set of indices
Nth(idx, k) == CHOOSE i \in idx : Cardinality({j \in idx : j <= i}) = k

\* out consists of the elements of in at the indices idx, in their order
IsSelection(out, in, idx) ==
    /\ Len(out) = Cardinality(idx)
    /\ \A k \in 1..Len(out) : out[k] = in[Nth(idx, k)]

DateUnknown(article) == parse_date(article.publish_date) = None

LogOf(stage) == {log[i] : i \in {k \in 1..Len(log) : log[k].stage = stage}}

\* the decoder raised, reported an unsuccessful status, or returned no decoded URL
DecodeFailed(article) ==
    LET r == article.decoded[1]
    IN r.raised \/ ~r.status \/ r.decoded_url = << >>

\* the link resolve_urls went on with: the decoded URL, or the source link
RealUrl(article) == resolve_google_news_url(article.google_url, article.decoded[1])

\* no query string or fragment, no trailing slash, no http:// scheme, no amp. prefix
IsNormalized(u) ==
    /\ normalize_url(u) = u
    /\ \A i \in 1..Len(u) : u[i] \notin {"?", "#"}
    /\ (u # << >> => u[Len(u)] # "/")
    /\ ~StartsWith(u, HttpScheme)
    /\ ~Contains(u, HttpsAmp)

\* every exported row is the row of a candidate of the final list
RowsComeFromArticles ==
    /\ Len(csv) = Len(articles)
    /\ \A r \in 1..Len(csv) : \E i \in 1..Len(articles) :
          csv[r].title = articles[i].title /\ csv[r].url = articles[i].url

-----------------------------------------------------------------------------
(* C1: normalize_url is idempotent: applied to its own result, for any URL  *)
(* (empty, amp. prefix, http:// scheme, query, fragment, trailing slashes), *)
(* it returns that result unchanged.  Checked under SpecNorm.               *)
C1_Idempotent == \A i \in 2..Len(rets) : rets[i] = rets[1]

C1_Witness ==
    /\ Len(rets) >= 2
    /\ StartsWith(arg, HttpAmp)
    /\ Contains(arg, <<"?">>)
    /\ arg[Len(arg)] = "/"
    /\ rets[1] # arg
    /\ rets[2] = rets[1]

-----------------------------------------------------------------------------
(* C2: filter_by_date returns exactly the candidates whose parsed date is   *)
(* unknown or at or after the cutoff, in their original order; whatever it  *)
(* removes has a known date strictly before the cutoff.                     *)
C2_FilterExact ==
    [][pc = "filter" =>
        LET in == articles
            out == articles'
            keep == {i \in 1..Len(in) :
                        DateUnknown(in[i]) \/ parse_date(in[i].publish_date) >= CUTOFF_DATE}
        IN  /\ IsSelection(out, in, keep)
            /\ \A i \in (1..Len(in)) \ keep :
                  /\ ~DateUnknown(in[i])
                  /\ parse_date(in[i].publish_date) < CUTOFF_DATE
            /\ \A i \in 1..Len(in) : in[i].publish_date = DateText => i \in keep]_vars

C2_Witness ==
    /\ pc = "resolve"
    /\ \E e \in LogOf("filter") : e.removed > 0
    /\ \E i \in 1..Len(articles) : articles[i].publish_date = DateText
    /\ \E i \in 1..Len(articles) : parse_date(articles[i].publish_date) = CUTOFF_DATE

-----------------------------------------------------------------------------
(* C3: whatever queries have been processed, no two accumulated candidates  *)
(* have the same case-folded, trimmed title and none has an empty key; a    *)
(* stored candidate is the first one met with its key, in query order then  *)
(* feed order, and is never replaced or altered afterwards.                 *)
C3_KeysUnique ==
    /\ \A i \in 1..Len(all_articles) :
          /\ Key(all_articles[i].value) # << >>
          /\ \A j \in 1..Len(all_articles) :
                i # j => Key(all_articles[i].value) # Key(all_articles[j].value)
    /\ pc = "filter" => articles = Values(all_articles)

C3_FirstWins ==
    LET old == all_articles
        new == all_articles'
        feed == fetched'
        first(k) == CHOOSE m \in 1..Len(feed) :
                        /\ Key(feed[m]) = Key(new[k].value)
                        /\ \A n \in 1..(m - 1) : Key(feed[n]) # Key(feed[m])
    IN  pc = "discovery" =>
        /\ Len(new) >= Len(old)
        /\ SubSeq(new, 1, Len(old)) = old
        /\ \A k \in (Len(old) + 1)..Len(new) :
              /\ \E m \in 1..Len(feed) : Key(feed[m]) = Key(new[k].value)
              /\ new[k].value = feed[first(k)]
              /\ Key(new[k].value) \notin Keys(old)
              /\ \A k2 \in (k + 1)..Len(new) : first(k) < first(k2)
        /\ \A m \in 1..Len(feed) : Key(feed[m]) # << >> => Key(feed[m]) \in Keys(new)

C3_TitleDedup == [](C3_KeysUnique) /\ [][C3_FirstWins]_vars

C3_Witness ==
    /\ \E i \in 1..Len(all_articles) : all_articles[i].value.title = <<"A", "b">>
    /\ \E m \in 1..Len(fetched) : fetched[m].title = <<"a", "b">>
    /\ \A i \in 1..Len(all_articles) : all_articles[i].value.title # <<"a", "b">>
    /\ \E m \in 1..Len(fetched) : fetched[m].title = << >>

-----------------------------------------------------------------------------
(* C4: deduplicate_by_url outputs no two records with the same normalized   *)
(* resolved_url, and keeps, in input order, exactly the first input         *)
(* candidate of each distinct normalized resolved_url.                      *)
C4_DedupFirst ==
    [][pc = "dedup" =>
        LET in == articles
            out == articles'
            firsts == {i \in 1..Len(in) :
                          \A j \in 1..(i - 1) :
                              normalize_url(in[j].url) # normalize_url(in[i].url)}
        IN  /\ IsSelection(out, in, firsts)
            /\ \A i, j \in 1..Len(out) :
                  i # j => normalize_url(out[i].url) # normalize_url(out[j].url)
            /\ {normalize_url(out[i].url) : i \in 1..Len(out)}
                  = {normalize_url(in[i].url) : i \in 1..Len(in)}]_vars

C4_Witness ==
    /\ pc = "export"
    /\ \E e \in LogOf("dedup") : e.removed = 1
    /\ \E e \in LogOf("filter") : e.removed = 0
    /\ Len(all_articles) = 2
    /\ \E k \in 1..Len(all_articles) : all_articles[k].value.google_url = LinkGoogle
    /\ Len(articles) = 1
    /\ articles[1].url = LinkGoogleQuery

-----------------------------------------------------------------------------
(* C5: the rows write_csv writes are in non-increasing order of parsed      *)
(* publish date, and every row without a date comes after every row with   *)
(* one, whatever the known dates are.  Checked under SpecExport.            *)
C5_UnknownLast ==
    pc = "done" =>
        /\ \A i, j \in 1..Len(csv) :
              (i < j /\ csv[i].publish_date # << >> /\ csv[j].publish_date # << >>)
                  => csv[i].publish_date[1] >= csv[j].publish_date[1]
        /\ \A i, j \in 1..Len(csv) :
              (csv[i].publish_date = << >> /\ csv[j].publish_date # << >>) => i > j

C5_Witness ==
    /\ pc = "done"
    /\ \E i, j \in 1..Len(csv) :
          /\ i < j
          /\ csv[i].publish_date = << >>
          /\ csv[j].publish_date = <<DatetimeMin>>
    /\ \E i \in 1..Len(csv) : csv[i].publish_date = <<MaxInstant>>

-----------------------------------------------------------------------------
(* C6, as claimed: a candidate whose decoding fails gets, and exports, its  *)
(* source link character for character, whatever the link is.               *)
C6_FallbackVerbatim ==
    Resolved =>
        \A i \in 1..Len(articles) :
            DecodeFailed(articles[i]) => articles[i].url = articles[i].google_url

(* C6, as amended: a candidate whose decoding fails gets, and exports, its  *)
(* source link character for character when the link does not contain       *)
(* "miamiherald.com", and the normalized form of the link when it does.     *)
C6_FallbackByMarker ==
    /\ Resolved =>
          \A i \in 1..Len(articles) :
              DecodeFailed(articles[i]) =>
                  articles[i].url =
                      IF Contains(articles[i].google_url, Marker)
                      THEN normalize_url(articles[i].google_url)
                      ELSE articles[i].google_url
    /\ pc = "done" => RowsComeFromArticles

C6_Witness ==
    /\ pc = "done"
    /\ \E i \in 1..Len(articles) :
          /\ DecodeFailed(articles[i])
          /\ articles[i].google_url = LinkGoogle
          /\ \E r \in 1..Len(csv) :
                csv[r].title = articles[i].title /\ csv[r].url = LinkGoogle
    /\ \E i \in 1..Len(articles) :
          /\ DecodeFailed(articles[i])
          /\ articles[i].google_url = LinkMirror
          /\ articles[i].url # LinkMirror
          /\ \E r \in 1..Len(csv) :
                csv[r].title = articles[i].title /\ csv[r].url = articles[i].url

-----------------------------------------------------------------------------
(* C7: every query of the catalog is issued exactly once, in catalog order, *)
(* without retry; a query that ends in a non-200 status or a transport      *)
(* error adds no candidate and leaves the accumulated ones unchanged; the   *)
(* next query is still issued and the run reaches the end of Export.        *)
(* Checked under FairSpec.                                                  *)
C7_IssuedInOrder ==
    /\ Len(issued) <= NumQueries
    /\ \A i \in 1..Len(issued) : issued[i] = RSS_QUERIES[i]
    /\ Len(issued) = qi - 1
    /\ pc # "discovery" => Len(issued) = NumQueries

C7_FailureAbsorbed ==
    (issued' # issued /\ status' \in {"status", "error"}) =>
        /\ fetched' = << >>
        /\ all_articles' = all_articles
        /\ pc' = IF Len(issued') < NumQueries THEN "discovery" ELSE "filter"

C7_QueriesOnceAndOn ==
    [](C7_IssuedInOrder) /\ [][C7_FailureAbsorbed]_vars /\ <>(pc = "done")

C7_Witness ==
    /\ pc = "done"
    /\ status \in {"status", "error"}
    /\ Len(issued) = NumQueries
    /\ all_articles # << >>
    /\ csv # << >>

-----------------------------------------------------------------------------
(* C8, as claimed: after the Resolution Stage every candidate's             *)
(* resolved_url is in normalized form, adopted or fallen back.              *)
C8_AllNormalized ==
    Resolved => \A i \in 1..Len(articles) : IsNormalized(articles[i].url)

(* C8, as amended: after the Resolution Stage the resolved_url is in        *)
(* normalized form for every candidate whose resolved link (the decoded     *)
(* URL, or the source link when decoding failed) contains                   *)
(* "miamiherald.com"; any other candidate keeps its source link verbatim.   *)
C8_NormalizedIfPublisher ==
    Resolved =>
        \A i \in 1..Len(articles) :
            IF Contains(RealUrl(articles[i]), Marker)
            THEN IsNormalized(articles[i].url)
            ELSE articles[i].url = articles[i].google_url

C8_Witness ==
    /\ pc = "dedup"
    /\ \E i \in 1..Len(articles) :
          /\ ~DecodeFailed(articles[i])
          /\ articles[i].decoded[1].decoded_url = DecodedTracked
          /\ articles[i].url = DecodedPlain
    /\ \E i \in 1..Len(articles) :
          /\ DecodeFailed(articles[i])
          /\ articles[i].url = LinkGoogleQuery

-----------------------------------------------------------------------------
(* C9: once resolve_urls has processed a candidate its                      *)
(* resolved_url is non-empty, through Dedup and Export, also for an entry   *)
(* without a link.                                                          *)
C9_NeverEmpty ==
    Resolved => \A i \in 1..Len(articles) : articles[i].url # << >>

C9_Witness ==
    /\ pc = "done"
    /\ \E i \in 1..Len(articles) :
          /\ articles[i].google_url = << >>
          /\ DecodeFailed(articles[i])
          /\ articles[i].url = << >>
          /\ \E r \in 1..Len(csv) : csv[r].title = articles[i].title /\ csv[r].url = << >>
    /\ \E i \in 1..Len(articles) : articles[i].url # << >>

-----------------------------------------------------------------------------
(* C10: the stages run in the order Discovery, Filter, Resolution, Dedup,   *)
(* Export, each once and each on the output of the one before: no           *)
(* candidate is resolved before it has passed the date filter and no row    *)
(* is exported before URL deduplication has finished.                       *)
C10_StagesInOrder ==
    /\ Len(stages) <= Len(Pipeline)
    /\ \A i \in 1..Len(stages) : stages[i] = Pipeline[i]
    /\ pc = "done" <=> stages = Pipeline
    /\ pc # "done" =>
          pc = Pipeline[IF (pc = "discovery" /\ qi > 1) \/ (pc = "resolve" /\ ri > 1)
                        THEN Len(stages) ELSE Len(stages) + 1]
    /\ pc = "filter" => articles = Values(all_articles)
    /\ \A i \in 1..Len(articles) :
          articles[i].decoded # << >> =>
              /\ \E k \in 1..Len(stages) : stages[k] = "filter"
              /\ DateUnknown(articles[i])
                    \/ parse_date(articles[i].publish_date) >= CUTOFF_DATE
              /\ \E k \in 1..Len(all_articles) :
                    all_articles[k].value.title = articles[i].title
    /\ csv # << >> =>
          /\ \E k \in 1..Len(stages) : stages[k] = "dedup"
          /\ RowsComeFromArticles
          /\ \A i, j \in 1..Len(csv) :
                i # j => normalize_url(csv[i].url) # normalize_url(csv[j].url)

C10_Witness ==
    /\ pc = "done"
    /\ stages = Pipeline
    /\ csv # << >>
    /\ \E e \in LogOf("filter") : e.removed > 0
    /\ \E e \in LogOf("dedup") : e.removed > 0

=============================================================================
